---- MODULE Spec2Model ----
(***************************************************************************)
(* Solid/EvolutionaryAlgorithm.py: the generational loop of                *)
(* EvolutionaryAlgorithm (constructor validation, _clear, _select_n,       *)
(* _most_fit, run), bound to the string-matching capabilities of           *)
(* tests/test_evolutionary_algorithm.py.                                   *)
(*                                                                         *)
(* Members are objects: the population, the parents and best_member hold   *)
(* references (ObjIds) into a heap, so that aliasing between best_member   *)
(* and the live population is visible.  A capability binding may build a   *)
(* new member or alter its argument in place (in_place).                   *)
(***************************************************************************)
EXTENDS Integers, Sequences, FiniteSets

(* ------------------------------ bounds -------------------------------- *)
MaxPop == 3        \* largest initial population
MaxSteps == 2      \* largest max_steps of a constructed driver
MaxRuns == 2       \* run() calls per driver

(* ------------------------- program constants -------------------------- *)
MinCopy == 2       \* max(..., 2) in num_copy
NumParents == 2    \* self._select_n(2)
LogEvery == 100    \* (i + 1) % 100 == 0

(* Rates are exact binary fractions v / RateDen. *)
RateDen == 2

(* ------------------------- Python values ------------------------------ *)
None == -1
NoneList == <<None>>

PyFloat(v) == [kind |-> "float", v |-> v]
PyInt(v) == [kind |-> "int", v |-> v]
PyBool(v) == [kind |-> "bool", v |-> v]
Str == [kind |-> "str", v |-> 0]
NoneArg == [kind |-> "NoneType", v |-> 0]

\* isinstance(x, float); isinstance(x, int), which holds of a bool
IsFloat(x) == x.kind = "float"
IsInt(x) == x.kind \in {"int", "bool"}

\* isinstance(x, float) and 0 <= x <= 1, x = v / RateDen
IsRate_IntToo(x) == (IsFloat(x) \/ IsInt(x)) /\ 0 <= x.v /\ x.v <= RateDen
IsRate(x) == IsFloat(x) /\ 0 <= x.v /\ x.v <= RateDen

\* isinstance(x, int) and x > 0
IsSteps(x) == IsInt(x) /\ x.v > 0

\* x is None or isinstance(x, (int, float))
IsMaxFitness(x) == x.kind = "NoneType" \/ IsInt(x) \/ IsFloat(x)

\* The first failing check of __init__, or "none".
ValidationError(a) ==
    IF ~IsRate(a.crossover_rate) THEN "crossover_rate"
    ELSE IF ~IsRate(a.mutation_rate) THEN "mutation_rate"
    ELSE IF ~IsSteps(a.max_steps) THEN "max_steps"
    ELSE IF ~IsMaxFitness(a.max_fitness) THEN "max_fitness"
    ELSE "none"

(* ------------------- the string-matching binding ---------------------- *)
Word == <<1, 1>>
Alphabet == {0, 1}
WordIdx == 1..Len(Word)
Members == [WordIdx -> Alphabet]

\* random() draws, in units of 1 / RateDen; random() < 1
RandomDraws == 0..(RateDen - 1)

RECURSIVE SumSeq(_)
SumSeq(s) == IF s = <<>> THEN 0 ELSE Head(s) + SumSeq(Tail(s))

\* sum(x == y for x, y in zip(self.word, member))
Fitness(m) == SumSeq([p \in WordIdx |-> IF Word[p] = m[p] THEN 1 ELSE 0])

\* parent1[:index] + parent2[index:], index a 0-based position
CrossoverValue(p1, p2, index) == [p \in WordIdx |-> IF p <= index THEN p1[p] ELSE p2[p]]

\* member[:index] + c + member[index+1:] when mutation_rate >= random()
MutateValue(m, rate, r, index, c) ==
    IF rate.v >= r THEN [p \in WordIdx |-> IF p = index + 1 THEN c ELSE m[p]]
    ELSE m

\* what _crossover, _mutate can return over their random draws
CrossoverValues(p1, p2) == {CrossoverValue(p1, p2, index) : index \in 0..(Len(Word) - 1)}
MutateValues(m, rate) ==
    {MutateValue(m, rate, r, index, c) :
        r \in RandomDraws, index \in 0..(Len(Word) - 1), c \in Alphabet}

(* ------------------------------ state --------------------------------- *)
VARIABLES
    args,            \* the constructor's arguments
    error,           \* the parameter __init__ raised on, "none", or "unbuilt"
    in_place,        \* the binding's Mutate alters its argument in place
    crossover_rate, mutation_rate, max_steps, max_fitness,
    cur_steps, population, fitnesses, best_member, best_fitness,
    heap,            \* ObjIds -> member value, NoMember for an unused id
    num_copy, num_crossover, i, parents, k, j,   \* locals of run()
    pc,              \* position in run()
    ret,             \* what the last run() returned, None before
    runs,            \* run() calls so far
    run_limit,       \* run() calls the caller makes
    pop_limit,       \* largest population the binding's _initial_population returns
    log,             \* status reports emitted
    outcome,         \* how the last run() ended: the termination logged, or
                     \* the capability whose exception left run(); "none" before
    obs_fitness, obs_member,  \* history: best observed in this run
    obs_size,        \* history: len of this run's initial population
    gens             \* history: generations this run has completed

config == <<crossover_rate, mutation_rate, max_steps, max_fitness>>
locals == <<num_copy, num_crossover, i, parents, k, j>>
runstate == <<cur_steps, population, fitnesses, best_member, best_fitness>>
history == <<obs_fitness, obs_member, obs_size, gens>>
vars == <<args, error, in_place, run_limit, pop_limit, config, runstate, heap, locals, pc, ret, runs, log,
          outcome, history>>

ObjIds == 1..(MaxPop + 3)
NoMember == <<>>
NoRet == <<>>
EmptyHeap == [o \in ObjIds |-> NoMember]

Range(s) == {s[x] : x \in DOMAIN s}
Min(a, b) == IF a <= b THEN a ELSE b
Max(a, b) == IF a >= b THEN a ELSE b

\* the objects reachable from the driver and from run()'s frame
Refs(pop, par, best) == (Range(pop) \cup Range(par) \cup {best}) \ {None}
\* a new object: an id nothing refers to
Alloc(used) == CHOOSE o \in ObjIds \ used : \A q \in ObjIds \ used : o <= q

\* Object identity matters only up to renaming: after every step the objects
\* are renumbered in the order population, parents, best_member first refer
\* to them, and unreferenced objects are reclaimed.
RECURSIVE RefOrderFrom(_, _, _)
RefOrderFrom(key, x, acc) ==
    IF x > Len(key) THEN acc
    ELSE RefOrderFrom(key, x + 1,
            IF key[x] = None \/ key[x] \in Range(acc) THEN acc ELSE Append(acc, key[x]))
RefOrder(pop, par, best) == RefOrderFrom(pop \o par \o <<best>>, 1, <<>>)
Rename(ord, o) == IF o = None THEN None ELSE CHOOSE n \in 1..Len(ord) : ord[n] = o
RenameSeq(ord, s) == [x \in 1..Len(s) |-> Rename(ord, s[x])]
RenameHeap(ord, h) == [n \in ObjIds |-> IF n <= Len(ord) THEN h[ord[n]] ELSE NoMember]
\* population, parents, best_member and the heap, renumbered
Renamed(pop, par, best, h) ==
    LET ord == RefOrder(pop, par, best)
    IN  <<RenameSeq(ord, pop), RenameSeq(ord, par), Rename(ord, best), RenameHeap(ord, h)>>

(* --------------------------- helpers of run --------------------------- *)
\* _populate_fitness: [self._fitness(x) for x in self.population]
PopulateFitness(pop, h) == [x \in 1..Len(pop) |-> Fitness(h[pop[x]])]

\* numpy.argmax: the first index of the maximum
ArgMax(fit) ==
    CHOOSE b \in 1..Len(fit) :
        /\ \A q \in 1..Len(fit) : fit[q] <= fit[b]
        /\ \A q \in 1..(b - 1) : fit[q] < fit[b]

\* self.population[:n]
Prefix_Whole(pop, n) == pop
Prefix(pop, n) == SubSeq(pop, 1, Min(n, Len(pop)))

\* n draws with replacement that ignore p
Choice_Uniform(pop, fit, n) ==
    {[x \in 1..n |-> pop[idx[x]]] : idx \in [1..n -> 1..Len(pop)]}

\* numpy.random.choice(population, size=n, p=probs): n draws with replacement,
\* each of an index whose probability fitness / total is positive
Choice(pop, fit, n) ==
    {[x \in 1..n |-> pop[idx[x]]] : idx \in [1..n -> {q \in 1..Len(pop) : fit[q] > 0}]}

\* _select_n: the lists it can return
SelectN(pop, fit, n) ==
    IF SumSeq(fit) = 0 THEN {Prefix(pop, n)} ELSE Choice(pop, fit, n)

\* num_copy = max(int((1 - self.crossover_rate) * len(self.population)), 2)
NumCopy(rate, n) == Max(((RateDen - rate.v) * n) \div RateDen, MinCopy)
\* num_crossover = len(self.population) - num_copy
NumCrossover(n, copy) == n - copy

\* best_fitness > self.best_fitness
Improves_Always(bf, cur) == TRUE
Improves(bf, cur) == bf > cur

\* self.max_fitness is not None and self.best_fitness >= self.max_fitness
ReachedMax_Strict(mf, bf) == mf.kind # "NoneType" /\ bf > mf.v
ReachedMax(mf, bf) == mf.kind # "NoneType" /\ bf >= mf.v

\* for i in range(self.max_steps): another turn is due
LoopContinues_OneMore(n, steps) == n <= steps.v
LoopContinues(n, steps) == n < steps.v

\* (i + 1) % 100 == 0
ReportDue_FromZero(n) == n % LogEvery = 0
ReportDue(n) == (n + 1) % LogEvery = 0
\* status(): step, best fitness, best member
Status(step) == <<step, best_fitness, IF best_member = None THEN NoMember ELSE heap[best_member]>>

\* history: the best of the populations evaluated so far in this run, the
\* earliest of them on a tie, as a (fitness, member value) pair
ObservedBest(vals, of, om) ==
    LET top == CHOOSE f \in {Fitness(vals[x]) : x \in 1..Len(vals)} :
                   \A x \in 1..Len(vals) : Fitness(vals[x]) <= f
        first == CHOOSE x \in 1..Len(vals) :
                   /\ Fitness(vals[x]) = top
                   /\ \A y \in 1..(x - 1) : Fitness(vals[y]) # top
    IN  IF of = None \/ top > of THEN <<top, vals[first]>> ELSE <<of, om>>

(* ------------------------------ Init ---------------------------------- *)
\* rates in units of 1 / RateDen: an int 1 is PyInt(RateDen), True is PyBool(RateDen)
RateArgs == {PyFloat(v) : v \in -1..(RateDen + 1)}
            \cup {PyInt(0), PyInt(RateDen), PyBool(RateDen), Str, NoneArg}
StepArgs == {PyInt(v) : v \in -1..MaxSteps} \cup {PyFloat(1), PyBool(1), Str, NoneArg}
FitnessArgs == {NoneArg, Str, PyBool(1), PyFloat(1)} \cup {PyInt(v) : v \in 0..Len(Word)}

Unbuilt ==
    /\ error = "unbuilt"
    /\ crossover_rate = NoneArg /\ mutation_rate = NoneArg
    /\ max_steps = NoneArg /\ max_fitness = NoneArg
    /\ cur_steps = None /\ population = NoneList /\ fitnesses = NoneList
    /\ best_member = None /\ best_fitness = None
    /\ heap = EmptyHeap
    /\ num_copy = 0 /\ num_crossover = 0 /\ i = 0 /\ parents = <<>> /\ k = 0 /\ j = 0
    /\ pc = "new" /\ ret = NoRet /\ runs = 0 /\ log = <<>> /\ outcome = "none"
    /\ obs_fitness = None /\ obs_member = NoMember /\ obs_size = 0 /\ gens = 0

\* the drivers whose runs are explored
Init ==
    /\ args \in [crossover_rate : {PyFloat(v) : v \in 0..RateDen} \cup {PyInt(RateDen)},
                  mutation_rate : {PyFloat(1)},
                  max_steps : {PyInt(v) : v \in 1..MaxSteps},
                  max_fitness : {NoneArg, PyInt(Len(Word))}]
    /\ in_place \in BOOLEAN
    /\ run_limit = 1
    /\ pop_limit = MaxPop
    /\ Unbuilt

\* every argument list of the constructor
InitArgs ==
    /\ args \in [crossover_rate : RateArgs, mutation_rate : RateArgs,
                  max_steps : StepArgs, max_fitness : FitnessArgs]
    /\ in_place = FALSE
    /\ run_limit = 1
    /\ pop_limit = MaxPop
    /\ Unbuilt

\* a caller that calls run() again on the terminated driver
InitRerun ==
    /\ args \in [crossover_rate : {PyFloat(RateDen)},
                  mutation_rate : {PyFloat(1)},
                  max_steps : {PyInt(1)},
                  max_fitness : {NoneArg, PyInt(Len(Word))}]
    /\ in_place = FALSE
    /\ run_limit = MaxRuns
    /\ pop_limit = MaxPop
    /\ Unbuilt

(* ----------------------------- __init__ ------------------------------- *)
Construct ==
    /\ pc = "new"
    /\ error' = ValidationError(args)
    /\ IF error' = "none"
       THEN /\ crossover_rate' = args.crossover_rate
            /\ mutation_rate' = args.mutation_rate
            /\ max_steps' = args.max_steps
            /\ max_fitness' = args.max_fitness
            /\ pc' = "idle"
       ELSE \* the attributes set before the failing check exist on an object
            \* the raise discards
            /\ UNCHANGED config
            /\ pc' = "raised"
    /\ UNCHANGED <<args, in_place, run_limit, pop_limit, runstate, heap, locals, ret, runs, log, outcome, history>>

(* ------------------------------- run ---------------------------------- *)
\* _clear() that leaves the recorded best in place
Clear_KeepsBest ==
    /\ pc \in {"idle", "done", "failed"}
    /\ runs < run_limit
    /\ runs' = runs + 1
    /\ cur_steps' = 0
    /\ population' = NoneList
    /\ fitnesses' = NoneList
    /\ heap' = Renamed(<<>>, <<>>, best_member, heap)[4]
    /\ best_member' = Renamed(<<>>, <<>>, best_member, heap)[3]
    /\ num_copy' = 0 /\ num_crossover' = 0 /\ i' = 0 /\ parents' = <<>> /\ k' = 0 /\ j' = 0
    /\ obs_fitness' = None /\ obs_member' = NoMember /\ obs_size' = 0 /\ gens' = 0
    /\ pc' = "init"
    /\ outcome' = "none"
    /\ UNCHANGED <<args, error, in_place, run_limit, pop_limit, config, best_fitness, ret, log>>

\* self._clear()
Clear ==
    /\ pc \in {"idle", "done", "failed"}
    /\ runs < run_limit
    /\ runs' = runs + 1
    /\ cur_steps' = 0
    /\ population' = NoneList
    /\ fitnesses' = NoneList
    /\ best_member' = None
    /\ best_fitness' = None
    /\ heap' = EmptyHeap
    /\ num_copy' = 0 /\ num_crossover' = 0 /\ i' = 0 /\ parents' = <<>> /\ k' = 0 /\ j' = 0
    /\ obs_fitness' = None /\ obs_member' = NoMember /\ obs_size' = 0 /\ gens' = 0
    /\ pc' = "init"
    /\ outcome' = "none"
    /\ UNCHANGED <<args, error, in_place, run_limit, pop_limit, config, ret, log>>

\* population = _initial_population(); _populate_fitness(); _most_fit();
\* num_copy, num_crossover
Initialize ==
    /\ pc = "init"
    /\ \E n \in 1..pop_limit : \E vals \in [1..n -> Members] :
         LET pop == [x \in 1..n |-> x]
             h == [o \in ObjIds |-> IF o <= n THEN vals[o] ELSE NoMember]
             fit == PopulateFitness(pop, h)
             best == ArgMax(fit)
             obs == ObservedBest(vals, None, NoMember)
         IN  /\ population' = pop
             /\ heap' = h
             /\ fitnesses' = fit
             /\ best_member' = pop[best]
             /\ best_fitness' = fit[best]
             /\ num_copy' = NumCopy(crossover_rate, n)
             /\ num_crossover' = NumCrossover(n, num_copy')
             /\ obs_fitness' = obs[1] /\ obs_member' = obs[2] /\ obs_size' = n
    /\ gens' = 0
    /\ i' = 0
    /\ pc' = "loop"
    /\ UNCHANGED <<args, error, in_place, run_limit, pop_limit, config, cur_steps, parents, k, j, ret, runs, log,
                   outcome>>

\* for i in range(self.max_steps): self.cur_steps = i; the periodic report
LoopHead ==
    /\ pc = "loop"
    /\ LoopContinues(i, max_steps)
    /\ cur_steps' = i
    /\ log' = IF ReportDue(i) THEN Append(log, Status(i)) ELSE log
    /\ pc' = "select"
    /\ UNCHANGED <<args, error, in_place, run_limit, pop_limit, config, population, fitnesses, best_member,
                   best_fitness, heap, locals, ret, runs, outcome, history>>

\* self.population = self._select_n(num_copy), the fitnesses left as they were
SelectSurvivors_NoRecompute ==
    /\ pc = "select"
    /\ \E out \in {Renamed(sel, <<>>, best_member, heap) :
                        sel \in SelectN(population, fitnesses, num_copy)} :
         /\ population' = out[1]
         /\ best_member' = out[3]
         /\ heap' = out[4]
    /\ pc' = "parents"
    /\ UNCHANGED <<args, error, in_place, run_limit, pop_limit, config, cur_steps, fitnesses, best_fitness,
                   locals, ret, runs, log, outcome, history>>

\* self.population = self._select_n(num_copy); self._populate_fitness()
SelectSurvivors ==
    /\ pc = "select"
    /\ \E out \in {Renamed(sel, <<>>, best_member, heap) :
                        sel \in SelectN(population, fitnesses, num_copy)} :
         /\ population' = out[1]
         /\ best_member' = out[3]
         /\ heap' = out[4]
         /\ fitnesses' = PopulateFitness(out[1], out[4])
    /\ pc' = "parents"
    /\ UNCHANGED <<args, error, in_place, run_limit, pop_limit, config, cur_steps, best_fitness,
                   locals, ret, runs, log, outcome, history>>

\* parents = self._select_n(2)
SelectParents ==
    /\ pc = "parents"
    /\ parents' \in SelectN(population, fitnesses, NumParents)
    /\ k' = 0
    /\ pc' = IF num_crossover > 0 THEN "crossover" ELSE "mutate"
    /\ j' = 1
    /\ UNCHANGED <<args, error, in_place, run_limit, pop_limit, config, runstate, heap, num_copy, num_crossover,
                   i, ret, runs, log, outcome, history>>

\* one turn of a loop that draws the parents anew for every offspring
Crossover_Redraws ==
    /\ pc = "crossover"
    /\ k < num_crossover
    /\ \E pair \in SelectN(SubSeq(population, 1, num_copy), fitnesses, NumParents) :
       \E value \in CrossoverValues(heap[pair[1]], heap[pair[2]]) :
         LET child == Alloc(Refs(population, pair, best_member))
             out == Renamed(Append(population, child), pair, best_member,
                            [heap EXCEPT ![child] = value])
         IN  /\ population' = out[1]
             /\ parents' = out[2]
             /\ best_member' = out[3]
             /\ heap' = out[4]
    /\ k' = k + 1
    /\ pc' = IF k' < num_crossover THEN "crossover" ELSE "mutate"
    /\ j' = 1
    /\ UNCHANGED <<args, error, in_place, run_limit, pop_limit, config, cur_steps, fitnesses,
                   best_fitness, num_copy, num_crossover, i, ret, runs, log, outcome,
                   history>>

\* one turn of: for _ in range(num_crossover):
\*                  self.population.append(self._crossover(*parents))
Crossover ==
    /\ pc = "crossover"
    /\ k < num_crossover
    /\ \E value \in CrossoverValues(heap[parents[1]], heap[parents[2]]) :
         LET child == Alloc(Refs(population, parents, best_member))
             out == Renamed(Append(population, child), parents, best_member,
                            [heap EXCEPT ![child] = value])
         IN  /\ population' = out[1]
             /\ parents' = out[2]
             /\ best_member' = out[3]
             /\ heap' = out[4]
    /\ k' = k + 1
    /\ pc' = IF k' < num_crossover THEN "crossover" ELSE "mutate"
    /\ j' = 1
    /\ UNCHANGED <<args, error, in_place, run_limit, pop_limit, config, cur_steps, fitnesses,
                   best_fitness, num_copy, num_crossover, i, ret, runs, log, outcome,
                   history>>

\* one element of a comprehension that stops one member short
Mutate_StopsEarly ==
    /\ pc = "mutate"
    /\ j <= Len(population)
    /\ \E new \in MutateValues(heap[population[j]], mutation_rate) :
         LET x == population[j]
             fresh == Alloc(Refs(population, <<>>, best_member))
             result == IF in_place \/ new = heap[x] THEN x ELSE fresh
             out == Renamed([population EXCEPT ![j] = result], <<>>, best_member,
                            [heap EXCEPT ![result] = new])
         IN  IF result = x
             THEN /\ heap' = [heap EXCEPT ![x] = new]
                  /\ UNCHANGED <<population, best_member>>
             ELSE /\ population' = out[1]
                  /\ best_member' = out[3]
                  /\ heap' = out[4]
    /\ j' = j + 1
    /\ pc' = IF j' < Len(population) THEN "mutate" ELSE "evaluate"
    \* parents is not read after the crossover loop
    /\ parents' = <<>>
    /\ UNCHANGED <<args, error, in_place, run_limit, pop_limit, config, cur_steps, fitnesses,
                   best_fitness, num_copy, num_crossover, i, k, ret, runs, log,
                   outcome, history>>

\* one element of: self.population = [self._mutate(x) for x in self.population]
\* A binding that works in place returns its argument, altered; the test's
\* binding returns a new member, or its argument when nothing is altered.
Mutate ==
    /\ pc = "mutate"
    /\ j <= Len(population)
    /\ \E new \in MutateValues(heap[population[j]], mutation_rate) :
         LET x == population[j]
             fresh == Alloc(Refs(population, <<>>, best_member))
             result == IF in_place \/ new = heap[x] THEN x ELSE fresh
             out == Renamed([population EXCEPT ![j] = result], <<>>, best_member,
                            [heap EXCEPT ![result] = new])
         IN  IF result = x
             THEN /\ heap' = [heap EXCEPT ![x] = new]
                  /\ UNCHANGED <<population, best_member>>
             ELSE /\ population' = out[1]
                  /\ best_member' = out[3]
                  /\ heap' = out[4]
    /\ j' = j + 1
    /\ pc' = IF j' <= Len(population) THEN "mutate" ELSE "evaluate"
    \* parents is not read after the crossover loop
    /\ parents' = <<>>
    /\ UNCHANGED <<args, error, in_place, run_limit, pop_limit, config, cur_steps, fitnesses,
                   best_fitness, num_copy, num_crossover, i, k, ret, runs, log,
                   outcome, history>>

\* _populate_fitness(); _most_fit(); the elitism update; the max_fitness check
Evaluate ==
    /\ pc = "evaluate"
    /\ LET fit == PopulateFitness(population, heap)
           best == ArgMax(fit)
           copy == Alloc(Refs(population, <<>>, best_member))
           vals == [x \in 1..Len(population) |-> heap[population[x]]]
           obs == ObservedBest(vals, obs_fitness, obs_member)
       IN  /\ fitnesses' = fit
           /\ IF Improves(fit[best], best_fitness)
              THEN \* deepcopy(best_member): a new object of the same value
                   LET out == Renamed(population, <<>>, copy,
                                      [heap EXCEPT ![copy] = heap[population[best]]])
                   IN  /\ best_fitness' = fit[best]
                       /\ best_member' = out[3]
                       /\ heap' = out[4]
              ELSE UNCHANGED <<best_fitness, best_member, heap>>
           /\ obs_fitness' = obs[1] /\ obs_member' = obs[2]
    /\ gens' = gens + 1
    /\ obs_size' = obs_size
    /\ IF ReachedMax(max_fitness, best_fitness')
       THEN \* "TERMINATING - REACHED MAXIMUM FITNESS"
            /\ ret' = <<heap'[best_member'], best_fitness'>>
            /\ outcome' = "MaxFitnessReached"
            /\ pc' = "done"
            /\ i' = i
       ELSE /\ ret' = ret
            /\ outcome' = outcome
            /\ pc' = "loop"
            /\ i' = i + 1
    /\ UNCHANGED <<args, error, in_place, run_limit, pop_limit, config, cur_steps, population, num_copy,
                   num_crossover, parents, k, j, runs, log>>

\* the loop is exhausted: "TERMINATING - REACHED MAXIMUM STEPS";
\* return self.best_member, self.best_fitness
ReturnMaxSteps ==
    /\ pc = "loop"
    /\ ~LoopContinues(i, max_steps)
    /\ ret' = <<heap[best_member], best_fitness>>
    /\ outcome' = "MaxStepsExhausted"
    /\ pc' = "done"
    /\ UNCHANGED <<args, error, in_place, run_limit, pop_limit, config, runstate, heap, locals, runs, log, history>>

(* ------------------- exceptions of the capabilities ------------------- *)
\* run() has no try: an exception of a capability leaves run() at the call,
\* run()'s frame is discarded and the driver keeps the attributes assigned
\* so far.
Capabilities == {"_initial_population", "_fitness", "_crossover", "_mutate"}
FrameDiscarded ==
    /\ num_copy' = 0 /\ num_crossover' = 0 /\ i' = 0 /\ parents' = <<>> /\ k' = 0 /\ j' = 0

\* self.population = self._initial_population() raises
RaiseInitialPopulation ==
    /\ pc = "init"
    /\ pc' = "failed"
    /\ outcome' = "_initial_population"
    /\ FrameDiscarded
    /\ UNCHANGED <<args, error, in_place, run_limit, pop_limit, config, runstate, heap, ret, runs,
                   log, history>>

\* self._populate_fitness() raises in a _fitness call: self.fitnesses is not
\* assigned; the population assigned just before stays
RaiseFitness ==
    /\ \/ /\ pc = "init"      \* line 151
          /\ \E n \in 1..pop_limit : \E vals \in [1..n -> Members] :
               /\ population' = [x \in 1..n |-> x]
               /\ heap' = [o \in ObjIds |-> IF o <= n THEN vals[o] ELSE NoMember]
          /\ UNCHANGED best_member
       \/ /\ pc = "select"    \* line 162
          /\ \E out \in {Renamed(sel, <<>>, best_member, heap) :
                              sel \in SelectN(population, fitnesses, num_copy)} :
               /\ population' = out[1]
               /\ best_member' = out[3]
               /\ heap' = out[4]
       \/ /\ pc = "evaluate"  \* line 169
          /\ UNCHANGED <<population, best_member, heap>>
    /\ pc' = "failed"
    /\ outcome' = "_fitness"
    /\ FrameDiscarded
    /\ UNCHANGED <<args, error, in_place, run_limit, pop_limit, config, cur_steps, fitnesses,
                   best_fitness, ret, runs, log, history>>

\* self._crossover(*parents) raises: the offspring appended so far stay
RaiseCrossover_Swallowed ==
    /\ pc = "crossover"
    /\ k < num_crossover
    /\ pc' = "mutate"
    /\ j' = 1
    /\ outcome' = "_crossover"
    /\ UNCHANGED <<args, error, in_place, run_limit, pop_limit, config, runstate, heap, num_copy,
                   num_crossover, i, parents, k, ret, runs, log, history>>
RaiseCrossover ==
    /\ pc = "crossover"
    /\ k < num_crossover
    /\ pc' = "failed"
    /\ outcome' = "_crossover"
    /\ FrameDiscarded
    /\ LET out == Renamed(population, <<>>, best_member, heap)
       IN  population' = out[1] /\ best_member' = out[3] /\ heap' = out[4]
    /\ UNCHANGED <<args, error, in_place, run_limit, pop_limit, config, cur_steps, fitnesses,
                   best_fitness, ret, runs, log, history>>

\* a _mutate call of line 168 raises: the list under construction is dropped
\* and self.population is not assigned.  The members already passed through
\* an in-place _mutate stay altered; the results of a _mutate that builds new
\* members are lost with the list, which leaves the driver as a failure of
\* the first call does.
RaiseMutate ==
    /\ pc = "mutate"
    /\ j <= Len(population)
    /\ in_place \/ j = 1
    /\ pc' = "failed"
    /\ outcome' = "_mutate"
    /\ FrameDiscarded
    /\ LET out == Renamed(population, <<>>, best_member, heap)
       IN  population' = out[1] /\ best_member' = out[3] /\ heap' = out[4]
    /\ UNCHANGED <<args, error, in_place, run_limit, pop_limit, config, cur_steps, fitnesses,
                   best_fitness, ret, runs, log, history>>

Next ==
    \/ Construct
    \/ Clear
    \/ Initialize
    \/ LoopHead
    \/ SelectSurvivors
    \/ SelectParents
    \/ Crossover
    \/ Mutate
    \/ Evaluate
    \/ ReturnMaxSteps

Spec == Init /\ [][Next]_vars

\* the constructor, over every argument list, and the call of run()
NextArgs == Construct \/ Clear
SpecArgs == InitArgs /\ [][NextArgs]_vars

\* run() called again on the terminated driver
SpecRerun == InitRerun /\ [][Next]_vars

\* one generation over populations large enough for two offspring
InitPair ==
    /\ args \in [crossover_rate : {PyFloat(RateDen)},
                  mutation_rate : {PyFloat(v) : v \in 0..RateDen},
                  max_steps : {PyInt(1)},
                  max_fitness : {NoneArg}]
    /\ in_place \in BOOLEAN
    /\ run_limit = 1
    /\ pop_limit = MaxPop + 1
    /\ Unbuilt
SpecPair == InitPair /\ [][Next]_vars

\* runs whose capabilities may raise, and a caller that calls run() again
InitFail ==
    /\ args \in [crossover_rate : {PyFloat(RateDen)},
                  mutation_rate : {PyFloat(1)},
                  max_steps : {PyInt(1)},
                  max_fitness : {NoneArg}]
    /\ in_place \in BOOLEAN
    /\ run_limit = MaxRuns
    /\ pop_limit = MaxPop
    /\ Unbuilt
NextFail ==
    \/ Next
    \/ RaiseInitialPopulation
    \/ RaiseFitness
    \/ RaiseCrossover
    \/ RaiseMutate
SpecFail == InitFail /\ [][NextFail]_vars

\* a run long enough for the periodic report
InitReport ==
    /\ args \in [crossover_rate : {PyFloat(RateDen)},
                  mutation_rate : {PyFloat(1)},
                  max_steps : {PyInt(LogEvery)},
                  max_fitness : {NoneArg, PyInt(Len(Word))}]
    /\ in_place = FALSE
    /\ run_limit = 1
    /\ pop_limit = MaxPop
    /\ Unbuilt
SpecReport == InitReport /\ [][Next]_vars

(* ------------------------------ claims -------------------------------- *)
MemberOf(o) == IF o = None THEN NoMember ELSE heap[o]
MaxFitnessSet == max_fitness.kind # "NoneType"
InGeneration == pc \in {"select", "parents", "crossover", "mutate", "evaluate"}
GenerationEnded == pc \in {"loop", "done"} /\ gens >= 1

\* C1: at the end of every generation the population is as long as the
\* initial population of the run, whatever the size (>= 1) of that population
\* and the crossover rate.
C1_PopulationSize == GenerationEnded => Len(population) = obs_size

\* C1 for initial populations of at least MinCopy members (not the claim:
\* what holds of the code).
C1_PopulationSizeFromTwo ==
    (GenerationEnded /\ obs_size >= MinCopy) => Len(population) = obs_size

\* C2: within one run best_fitness never decreases from one step to the next,
\* from the best of the initial population on.
C2_MonotonicBest ==
    [][(best_fitness # None /\ best_fitness' # None) => best_fitness' >= best_fitness]_vars

\* C2 witness: a generation has ended whose members are all below the
\* recorded best.
C2_Witness ==
    /\ GenerationEnded
    /\ \A x \in 1..Len(fitnesses) : fitnesses[x] < best_fitness

\* C3: run() terminates after at most max_steps generations: every step of
\* run() lowers (generations left, position in the generation, offspring
\* left to make, members left to mutate), which is bounded below; when
\* max_fitness is unset or best_fitness stays below it, run() returns after
\* exactly max_steps generations, and it returns (best_member, best_fitness).
Running == pc \in {"init", "loop", "select", "parents", "crossover", "mutate", "evaluate"}
GenerationsLeft == max_steps.v - gens
Position ==
    CASE pc = "init" -> 7 [] pc = "loop" -> 6 [] pc = "select" -> 5 [] pc = "parents" -> 4
      [] pc = "crossover" -> 3 [] pc = "mutate" -> 2 [] pc = "evaluate" -> 1 [] OTHER -> 0
OffspringLeft == IF pc = "crossover" THEN num_crossover - k ELSE 0
MutationsLeft == IF pc = "mutate" THEN Len(population) + 1 - j ELSE 0
Progress ==
    \/ GenerationsLeft' < GenerationsLeft
    \/ GenerationsLeft' = GenerationsLeft /\ Position' < Position
    \/ /\ GenerationsLeft' = GenerationsLeft /\ Position' = Position
       /\ \/ OffspringLeft' < OffspringLeft
          \/ MutationsLeft' < MutationsLeft
C3_Termination ==
    /\ [](Running =>
            /\ GenerationsLeft >= 0 /\ OffspringLeft >= 0 /\ MutationsLeft >= 0
            /\ InGeneration => GenerationsLeft > 0 /\ cur_steps = gens)
    /\ [][Running => Progress]_vars
    /\ [](pc = "done" =>
            /\ ret = <<MemberOf(best_member), best_fitness>>
            /\ gens <= max_steps.v
            /\ (~MaxFitnessSet \/ best_fitness < max_fitness.v) => gens = max_steps.v)

\* C3 witness: a run with max_fitness set has returned after all of its
\* max_steps > 1 generations, its best below max_fitness.
C3_Witness ==
    /\ pc = "done" /\ MaxFitnessSet /\ best_fitness < max_fitness.v
    /\ gens = max_steps.v /\ gens > 1

\* C4: with max_fitness set, no selection, crossover or mutation step runs
\* once best_fitness >= max_fitness, the best of the initial population
\* included.
C4_StopsAtMaxFitness ==
    (InGeneration /\ pc # "evaluate" /\ MaxFitnessSet) => best_fitness < max_fitness.v

\* C5: after initialization best_member is never the same object as a member
\* of the live population.
C5_BestIsCopy == best_member # None => best_member \notin Range(population)

\* C6: run() returns the best observed in the run: the maximal fitness over
\* the initial and every post-mutation population, and the earliest observed
\* member of that fitness.
C6_ReturnsBestObserved == pc = "done" => ret = <<obs_member, obs_fitness>>

\* C6 for bindings whose Mutate builds a new member (not the claim: what
\* holds of the code).
C6_ReturnsBestObservedImmutable ==
    (pc = "done" /\ ~in_place) => ret = <<obs_member, obs_fitness>>

\* C7 as amended: construction succeeds exactly when crossover_rate and
\* mutation_rate are floats in [0, 1], max_steps is an int > 0 and
\* max_fitness is None, an int or a float; otherwise it raises on the first
\* offending parameter in the order crossover_rate, mutation_rate,
\* max_steps, max_fitness, and no driver is produced.
FloatInUnit(x) == x.kind = "float" /\ x.v \in 0..RateDen
RealInUnit(x) == x.kind \in {"float", "int", "bool"} /\ x.v \in 0..RateDen
PositiveInt(x) == x.kind \in {"int", "bool"} /\ x.v >= 1
NumericOrAbsent(x) == x.kind \in {"NoneType", "int", "bool", "float"}
FirstOffender(c, m, s, f) ==
    IF ~c THEN "crossover_rate" ELSE IF ~m THEN "mutation_rate"
    ELSE IF ~s THEN "max_steps" ELSE IF ~f THEN "max_fitness" ELSE "none"
Constructed(expected) ==
    pc # "new" =>
        /\ error = expected
        /\ expected = "none" => pc # "raised" /\ config = <<args.crossover_rate,
               args.mutation_rate, args.max_steps, args.max_fitness>>
        /\ expected # "none" =>
               pc = "raised" /\ runs = 0 /\ config = <<NoneArg, NoneArg, NoneArg, NoneArg>>
C7_Validation ==
    Constructed(FirstOffender(FloatInUnit(args.crossover_rate), FloatInUnit(args.mutation_rate),
                              PositiveInt(args.max_steps), NumericOrAbsent(args.max_fitness)))

\* C7: the same with "a real number in [0, 1]" for the two rates.
C7_ValidationReal ==
    Constructed(FirstOffender(RealInUnit(args.crossover_rate), RealInUnit(args.mutation_rate),
                              PositiveInt(args.max_steps), NumericOrAbsent(args.max_fitness)))

\* C7 witness: the constructor has rejected an int rate that lies in [0, 1].
C7_Witness ==
    /\ pc = "raised" /\ error = "mutation_rate"
    /\ args.mutation_rate.kind = "int" /\ args.mutation_rate.v \in 0..RateDen

\* C8: run() first resets cur_steps, population, fitnesses and the
\* recorded best, then takes a new initial population; what it returns is the
\* best of this run's populations alone.
C8_RunResets ==
    /\ pc = "init" =>
          /\ cur_steps = 0 /\ population = NoneList /\ fitnesses = NoneList
          /\ best_member = None /\ best_fitness = None
    /\ pc = "done" => ret = <<obs_member, obs_fitness>>
    /\ (pc \in {"loop", "done"} \cup {"select", "parents", "crossover", "mutate", "evaluate"})
          => best_fitness = obs_fitness

\* C8 witness: a second run() is about to return a best below the one the
\* first run() returned.
C8_Witness ==
    /\ runs = 2 /\ pc = "loop" /\ ~LoopContinues(i, max_steps)
    /\ ret # NoRet /\ best_fitness < ret[2]

\* C9 as amended: when the total fitness is zero, _select_n(n) returns
\* population[:n], the first min(n, len(population)) members in population
\* order, unchanged, for survivors (n = num_copy) and for parents (n = 2).
FirstOf(n, before, after) ==
    /\ Len(after) = Min(n, Len(before))
    /\ \A x \in 1..Len(after) : after[x] = before[x]
ExactlyFirstOf(n, before, after) ==
    /\ Len(after) = n
    /\ \A x \in 1..n : after[x] = before[x]
ValuesOf(pop, h) == [x \in 1..Len(pop) |-> h[pop[x]]]
C11_TerminalStates ==
    /\ pc = "done" <=> outcome \in {"MaxFitnessReached", "MaxStepsExhausted"}
    /\ outcome = "MaxFitnessReached" =>
          /\ MaxFitnessSet /\ ret[2] >= max_fitness.v
          /\ gens \in 1..max_steps.v
    /\ outcome = "MaxStepsExhausted" =>
          /\ gens = max_steps.v
          /\ MaxFitnessSet => ret[2] < max_fitness.v

\* C11 witness: a run with max_fitness set has ended by MaxFitnessReached with
\* generations to spare, its returned best fitness equal to max_fitness.
C11_Witness ==
    /\ pc = "done" /\ outcome = "MaxFitnessReached"
    /\ ret[2] = max_fitness.v /\ gens < max_steps.v

\* C13: wherever the fitness vector is read (survivor selection, parent
\* selection, _most_fit) it is as long as the current population and its entry
\* x is the fitness of the population's x-th member; the vector left over
\* while offspring are appended and members mutated is not read.
Aligned ==
    /\ Len(fitnesses) = Len(population)
    /\ \A x \in 1..Len(population) : fitnesses[x] = Fitness(MemberOf(population[x]))
C13_FitnessAligned ==
    /\ pc \in {"select", "parents"} => Aligned
    \* _most_fit has just read it: the initial best, and the generation's best
    /\ (pc = "loop" \/ pc = "done") =>
          /\ Aligned
          /\ \A x \in 1..Len(fitnesses) : fitnesses[x] <= best_fitness
    \* the stale vector is that of the survivors
    /\ pc \in {"crossover", "mutate", "evaluate"} => Len(fitnesses) = Len(population) - k

\* C13 witness: in a second generation the parents are about to be drawn
\* from survivors fewer than the population the run started with.
C13_Witness ==
    /\ pc = "parents" /\ gens >= 1
    /\ Len(fitnesses) = num_copy /\ num_copy < obs_size

\* C14: the split is fixed for the run from the initial population size N,
\* num_copy = max(floor((1 - crossover_rate) * N), 2) and num_crossover =
\* N - num_copy, and every generation keeps exactly num_copy survivors and
\* makes exactly num_crossover calls of Crossover (none at crossover_rate 0,
\* N - 2 at crossover_rate 1).
SplitOf(n) ==
    LET copy == IF ((RateDen - crossover_rate.v) * n) \div RateDen >= 2
                THEN ((RateDen - crossover_rate.v) * n) \div RateDen ELSE 2
    IN  <<copy, n - copy>>
C14_Split ==
    /\ (InGeneration \/ pc \in {"loop", "done"}) =>
          /\ <<num_copy, num_crossover>> = SplitOf(obs_size)
          /\ crossover_rate.v = 0 => num_crossover = 0
          /\ crossover_rate.v = RateDen => num_crossover = obs_size - 2
    \* the survivors kept, before and after the offspring are appended
    /\ pc = "parents" => Len(population) = num_copy
    /\ pc \in {"crossover", "mutate", "evaluate"} => Len(population) = num_copy + k
    \* the calls of Crossover made when the loop of line 165 is over
    /\ pc \in {"mutate", "evaluate"} => k = num_crossover

\* C14 for initial populations of at least MinCopy members (not the claim:
\* what holds of the code).
C14_SplitFromTwo == obs_size >= MinCopy => C14_Split

\* C15: in every generation the parents are drawn once, after the survivors
\* are selected and their fitnesses recomputed, from the survivors; every call
\* of Crossover in the generation gets that same ordered pair (parent1,
\* parent2), and the pair is not redrawn between offspring.
DrawnFrom(pop, h, drawn) ==
    \A x \in 1..Len(drawn) :
        /\ drawn[x] \in Range(pop)
        /\ (\E y \in 1..Len(pop) : Fitness(h[pop[y]]) > 0) => Fitness(h[drawn[x]]) > 0
Last(s) == s[Len(s)]
C15_ParentsOnce ==
    [][/\ pc' = "parents" => pc = "select"
       /\ pc = "parents" =>
             /\ DrawnFrom(population, heap, parents')
             /\ Aligned
             /\ UNCHANGED <<population, heap>>
       /\ pc = "crossover" =>
             /\ Len(parents) = NumParents
             /\ ValuesOf(parents', heap') = ValuesOf(parents, heap)
             /\ Len(population') = Len(population) + 1
             /\ Last(ValuesOf(population', heap'))
                    \in {CrossoverValue(heap[parents[1]], heap[parents[2]], index) :
                             index \in 0..(Len(Word) - 1)}
       \* no other step draws parents
       /\ pc # "parents" =>
             \/ ValuesOf(parents', heap') = ValuesOf(parents, heap)
             \/ parents' = <<>>]_vars

\* C15 witness: two offspring have been made in one generation from parents
\* of different values.
C15_Witness ==
    /\ pc = "mutate" /\ k = 2 /\ Len(parents) = NumParents
    /\ heap[parents[1]] # heap[parents[2]]

\* C16: in every generation Mutate is called once on each member of the
\* reassembled population, survivors and offspring alike and whatever
\* mutation_rate is, after all offspring are appended and before the fitnesses
\* are recomputed and the best updated; the member is replaced by the result.
OthersKept(pop, h, pos, h2) ==
    \A x \in 1..Len(pop) : pop[x] # pop[pos] => h2[x] = h[pop[x]]
C16_MutateEach ==
    [][/\ (pc' = "mutate" /\ pc # "mutate") =>
             /\ j' = 1
             /\ k' = num_crossover \/ (num_crossover <= 0 /\ k' = 0)
       /\ pc = "mutate" =>
             /\ j' = j + 1
             /\ Len(population') = Len(population)
             /\ heap'[population'[j]] \in MutateValues(heap[population[j]], mutation_rate)
             /\ OthersKept(population, heap, j, ValuesOf(population', heap'))
             /\ UNCHANGED <<fitnesses, best_fitness>>
             /\ MemberOf(best_member)' # MemberOf(best_member) => best_member = population[j]
       /\ pc' = "evaluate" => (pc = "mutate" /\ j' = Len(population') + 1)
       /\ pc = "evaluate" => ValuesOf(population', heap') = ValuesOf(population, heap)]_vars

\* C16 witness: at mutation_rate 0 every member of a full population,
\* offspring included, has been through Mutate and the fitnesses are still
\* those of the survivors.
C16_Witness ==
    /\ pc = "evaluate" /\ mutation_rate.v = 0
    /\ j = Len(population) + 1 /\ Len(population) = MaxPop + 1
    /\ Len(fitnesses) < Len(population)

\* C17 as amended: a report is emitted in exactly every 100th generation, as
\* the first step of that generation, before its selection: the snapshot
\* carries the generation's index i and the best as the generation before
\* left it; a generation that goes on to stop the run on max_fitness has
\* emitted its report; emitting changes no run state and not the number of
\* generations.
GenerationsStarted == IF InGeneration THEN gens + 1 ELSE gens
Hundredth(g) == g % LogEvery = 0
C17_ReportFirst ==
    /\ [](Len(log) = GenerationsStarted \div LogEvery)
    /\ [][/\ log' # log =>
              /\ pc = "loop" /\ pc' = "select" /\ Hundredth(gens + 1)
              /\ log' = Append(log, <<gens, best_fitness, MemberOf(best_member)>>)
              /\ cur_steps' = gens
              /\ UNCHANGED <<population, fitnesses, best_member, best_fitness, heap, locals,
                             gens, ret, outcome>>
          /\ (pc = "loop" /\ pc' = "select" /\ Hundredth(gens + 1)) => log' # log]_vars
    /\ [](pc = "done" /\ outcome = "MaxStepsExhausted" => gens = max_steps.v)

\* C17: a report is emitted in exactly every 100th generation as the last
\* step of that generation, after its elitism update and termination check:
\* the snapshot carries the best as updated in that generation, and a
\* generation that stops the run on max_fitness emits none.
C17_ReportLast ==
    [][/\ log' # log =>
             /\ pc = "evaluate" /\ pc' = "loop" /\ Hundredth(gens')
             /\ log' = Append(log, <<cur_steps', best_fitness', MemberOf(best_member)'>>)
       /\ (pc = "evaluate" /\ pc' = "loop" /\ Hundredth(gens')) => log' # log]_vars

\* C17 witness: the 100th generation has emitted its report and then stopped
\* the run on max_fitness, with a best above the one in the snapshot.
C17_Witness ==
    /\ pc = "done" /\ outcome = "MaxFitnessReached" /\ gens = LogEvery
    /\ Len(log) = 1 /\ log[1][1] = LogEvery - 1 /\ log[1][2] < ret[2]

\* C18: when a capability fails during run(), the run aborts at that call:
\* the failure reaches the caller, nothing more of the run is executed (no
\* retry, no later step), run() returns no pair, and a following run() starts
\* from fully reset state.
DueAt(capability, at) ==
    CASE capability = "_initial_population" -> at = "init"
      [] capability = "_fitness" -> at \in {"init", "select", "evaluate"}
      [] capability = "_crossover" -> at = "crossover"
      [] capability = "_mutate" -> at = "mutate"
      [] OTHER -> FALSE
C18_Abort ==
    /\ [](outcome \in Capabilities <=> pc = "failed")
    /\ [][/\ (pc' = "failed" /\ pc # "failed") =>
                /\ DueAt(outcome', pc)
                /\ UNCHANGED <<ret, cur_steps, fitnesses, best_fitness, log>>
                /\ MemberOf(best_member)' = MemberOf(best_member)
          /\ pc = "failed" =>
                /\ pc' = "init" /\ runs' = runs + 1 /\ outcome' = "none"
                /\ cur_steps' = 0 /\ population' = NoneList /\ fitnesses' = NoneList
                /\ best_member' = None /\ best_fitness' = None
                /\ UNCHANGED <<ret, config>>]_vars
    /\ [](runs = 1 /\ pc = "failed" => ret = NoRet)
    /\ [](runs > 1 /\ (InGeneration \/ pc \in {"loop", "done"}) => best_fitness = obs_fitness)

\* C18 witness: a second run() has made its generations and is about to
\* return, after a first run() that failed and returned nothing.
C18_Witness ==
    /\ runs = 2 /\ pc = "loop" /\ ~LoopContinues(i, max_steps) /\ ret = NoRet

\* C19: with total fitness > 0, every member roulette-wheel selection
\* returns, as a survivor or as a parent, is a member of the population
\* selected from and its fitness is > 0: a member of fitness zero is never
\* selected; under the zero-total fallback members of fitness zero are
\* selected.
PositiveOf(pop, fit, h, v) ==
    \E y \in 1..Len(pop) : h[pop[y]] = v /\ fit[y] > 0
C19_PositiveSelected ==
    [][/\ (pc = "select" /\ pc' = "parents" /\ SumSeq(fitnesses) > 0) =>
             /\ Len(population') = num_copy
             /\ \A x \in 1..Len(population') :
                    /\ PositiveOf(population, fitnesses, heap, heap'[population'[x]])
                    /\ fitnesses'[x] > 0
       /\ (pc = "parents" /\ SumSeq(fitnesses) > 0) =>
             /\ Len(parents') = NumParents
             /\ \A x \in 1..Len(parents') :
                    /\ parents'[x] \in Range(population)
                    /\ PositiveOf(population, fitnesses, heap, heap[parents'[x]])
       /\ (pc = "select" /\ pc' = "parents" /\ SumSeq(fitnesses) = 0) =>
             /\ Len(population') >= 1
             /\ \A x \in 1..Len(population') : fitnesses'[x] = 0
       /\ (pc = "parents" /\ SumSeq(fitnesses) = 0) =>
             /\ Len(parents') >= 1
             /\ \A x \in 1..Len(parents') : Fitness(heap[parents'[x]]) = 0]_vars

\* C19 witness: in a second generation roulette-wheel selection has returned
\* survivors, all of fitness > 0 and fewer than the population, and parents.
C19_Witness ==
    /\ pc = "crossover" /\ gens >= 1 /\ SumSeq(fitnesses) > 0
    /\ Len(fitnesses) = num_copy /\ num_copy < obs_size
    /\ \A x \in 1..Len(fitnesses) : fitnesses[x] > 0
    /\ Len(parents) = NumParents

\* C20: at the end of every generation and at return the recorded best is
\* consistent: best_fitness is the fitness of best_member, also under a Mutate
\* that alters members in place and for the best of the initial population.
C20_ConsistentBest ==
    (pc \in {"loop", "done"} /\ gens >= 1) => best_fitness = Fitness(MemberOf(best_member))

\* C20 for bindings whose Mutate builds a new member (not the claim: what
\* holds of the code).
C20_ConsistentBestImmutable ==
    (pc \in {"loop", "done"} /\ gens >= 1 /\ ~in_place)
        => best_fitness = Fitness(MemberOf(best_member))

====
